---- MODULE Spec2Model ----
(***************************************************************************)
(* Model of GameOfLife/taichi_game_of_life.py: the double-buffered Game of *)
(* Life grid (init, update), the renderer (query_state, draw) and the      *)
(* frame loop of __main__ (tick, event handlers, drag recompute, draw).    *)
(*                                                                         *)
(* Floating-point values (zoom, center_x, center_y, cursor positions, the  *)
(* continuous grid coordinates) are modelled as exact rationals <<n, d>>   *)
(* with d > 0, kept in lowest terms.  Rounding of f32/f64 is not modelled. *)
(***************************************************************************)
EXTENDS Integers, Sequences, FiniteSets, TLC

----------------------------------------------------------------------------
(* Exact rational arithmetic standing for Python / Taichi float arithmetic *)

Abs(n) == IF n < 0 THEN -n ELSE n

RECURSIVE GCD(_, _)
GCD(a, b) == IF b = 0 THEN a ELSE GCD(b, a % b)

RNorm(n, d) ==
    LET s == IF d < 0 THEN -1 ELSE 1
        g == GCD(Abs(n), Abs(d))
    IN  <<(s * n) \div g, (s * d) \div g>>

RInt(n) == <<n, 1>>
Rat(n, d) == RNorm(n, d)

RAdd(a, b) ==
    LET g == GCD(a[2], b[2])
    IN  RNorm(a[1] * (b[2] \div g) + b[1] * (a[2] \div g), (a[2] \div g) * b[2])
RNeg(a) == <<-a[1], a[2]>>
RSub(a, b) == RAdd(a, RNeg(b))
RMul(a, b) ==
    LET x == RNorm(a[1], b[2])
        y == RNorm(b[1], a[2])
    IN  RNorm(x[1] * y[1], x[2] * y[2])
RInv(a) == RNorm(a[2], a[1])
RDiv(a, b) == RMul(a, RInv(b))
RLt(a, b) == a[1] * b[2] < b[1] * a[2]
RGe(a, b) == ~RLt(a, b)
RGt(a, b) == RLt(b, a)
RLe(a, b) == ~RLt(b, a)

(* ti.cast(v, ti.i32) / int(v): truncation toward zero *)
RTrunc(a) == IF a[1] >= 0 THEN a[1] \div a[2] ELSE -((-a[1]) \div a[2])

RECURSIVE RPow(_, _)
RPow(a, k) == IF k = 0 THEN RInt(1) ELSE RMul(a, RPow(a, k - 1))

----------------------------------------------------------------------------
(* Program constants.  grid_num, res and grid_size are scaled down from    *)
(* the source values 100, 1024 and 20.0 so that the grid and the screen    *)
(* can be enumerated; the ratios the code depends on (the screen showing   *)
(* part of the grid at zoom 1, the grid centred on world 0) are kept.      *)

grid_num == 3
res == 6
grid_size == 2

zoom_rate == Rat(12, 10)
zoom_floor == Rat(7, 10)
border_thickness == Rat(5, 100)

(* time is counted in units of 0.05 s, so time_step = 0.1 s is 2 units *)
time_step == 2

PAUSED == "PAUSED"
RUNNING == "RUNNING"

BORDER_COLOR == <<207, 207, 207>>      \* 0xcf, 0xcf, 0xcf
ALIVE_COLOR == <<127, 255, 127>>       \* 0x7f, 0xff, 0x7f
DEAD_COLOR == <<63, 63, 63>>           \* 0x3f, 0x3f, 0x3f
INIT_COLOR == <<51, 51, 51>>           \* 0x33, 0x33, 0x33

(* Bounds of the exploration *)
MaxQueue == 2        \* events delivered to one frame
MaxFrames == 2       \* frames shown
MaxZoomExp == 2      \* zoom never driven above zoom_rate^MaxZoomExp
MaxPan == 2          \* |center_x|, |center_y| of the views handed to draw
MaxScrolls == 8      \* scroll events of one logged run

----------------------------------------------------------------------------
(* The grid: state[buffer, i, j] and the kernels init() and update()       *)

Idx == 0 .. grid_num - 1
Cells == Idx \X Idx
Lanes == {0, 1} \X Idx \X Idx
Pixels == (0 .. res - 1) \X (0 .. res - 1)

(* center = ti.cast(grid_num / 2, ti.u32) *)
center == RTrunc(Rat(grid_num, 2))

SeedCells ==
    { <<center, center>>, <<center - 1, center - 1>>, <<center + 1, center>>,
      <<center + 1, center - 1>>, <<center, center + 1>> }

init_state ==
    [l \in Lanes |-> IF l[1] = 0 /\ <<l[2], l[3]>> \in SeedCells THEN 1 ELSE 0]

init_frame_buffer == [p \in Pixels |-> INIT_COLOR]

(* nxt_state_idx = 1 - cur_state_idx *)
\* faulty variant: the kernel writes into the buffer it reads
nxt_state_idx_same(cur) == cur
nxt_state_idx(cur) == 1 - cur

Offsets == {-1, 0, 1} \X {-1, 0, 1}

(* the cells of the current buffer that lane (i, j) reads when counting *)
\* faulty variant: neighbours wrap around the edges
neighbor_wrap(i, j) ==
    { <<(i + d[1]) % grid_num, (j + d[2]) % grid_num>> :
        d \in {o \in Offsets : o[1] # 0 \/ o[2] # 0} }
neighbor_reads(i, j) ==
    { <<i + d[1], j + d[2]>> :
        d \in {o \in Offsets : (o[1] # 0 \/ o[2] # 0)
                                /\ 0 <= i + o[1] /\ i + o[1] < grid_num
                                /\ 0 <= j + o[2] /\ j + o[2] < grid_num} }

(* alive: the number of in-range neighbours whose current value is 1 *)
count_alive(st, cur, i, j) ==
    Cardinality({ c \in neighbor_reads(i, j) : st[<<cur, c[1], c[2]>>] = 1 })

(* the cell rules: the value written to state[nxt_state_idx, i, j] *)
\* faulty variant: birth on 2 neighbours
cell_rule_b2(self, alive) ==
    IF self = 0
    THEN (IF alive = 2 THEN 1 ELSE 0)
    ELSE (IF 2 <= alive /\ alive <= 3 THEN 1 ELSE 0)
cell_rule(self, alive) ==
    IF self = 0
    THEN (IF alive = 3 THEN 1 ELSE 0)
    ELSE (IF 2 <= alive /\ alive <= 3 THEN 1 ELSE 0)

(* one lane of the struct-for: lanes of the other buffer do nothing *)
\* faulty variant: only live results are written
update_lane_sparse(st, cur, l) ==
    IF l[1] = cur /\ cell_rule(st[<<cur, l[2], l[3]>>], count_alive(st, cur, l[2], l[3])) = 1
    THEN [st EXCEPT ![<<nxt_state_idx(cur), l[2], l[3]>>] = 1]
    ELSE st
update_lane(st, cur, l) ==
    IF l[1] = cur
    THEN [st EXCEPT ![<<nxt_state_idx(cur), l[2], l[3]>>] =
                cell_rule(st[<<cur, l[2], l[3]>>], count_alive(st, cur, l[2], l[3]))]
    ELSE st

(* the whole kernel, its lanes run in index order *)
LaneSeq ==
    [n \in 1 .. 2 * grid_num * grid_num |->
        << (n - 1) \div (grid_num * grid_num),
           ((n - 1) % (grid_num * grid_num)) \div grid_num,
           (n - 1) % grid_num >>]

RECURSIVE run_lanes(_, _, _)
run_lanes(st, cur, n) ==
    IF n = 0 THEN st ELSE update_lane(run_lanes(st, cur, n - 1), cur, LaneSeq[n])

update(st, cur) == run_lanes(st, cur, 2 * grid_num * grid_num)

----------------------------------------------------------------------------
(* The renderer: query_state() and draw()                                  *)

(* grid_x = x / grid_size + grid_num / 2 *)
world_to_grid(x) == RAdd(RDiv(x, RInt(grid_size)), Rat(grid_num, 2))

(* the guard of query_state and of the RMB handler, negated:               *)
(* not (grid_x >= grid_num or grid_x < 0 or grid_y >= grid_num or ...)     *)
\* faulty variant: the test is made on the truncated indices
in_bounds_trunc(grid_x, grid_y) ==
    /\ RTrunc(grid_x) < grid_num /\ RTrunc(grid_x) >= 0
    /\ RTrunc(grid_y) < grid_num /\ RTrunc(grid_y) >= 0
\* faulty variant: a coordinate equal to grid_num passes the test
in_bounds_inclusive(grid_x, grid_y) ==
    ~ (\/ RGt(grid_x, RInt(grid_num)) \/ RLt(grid_x, RInt(0))
       \/ RGt(grid_y, RInt(grid_num)) \/ RLt(grid_y, RInt(0)))
in_bounds(grid_x, grid_y) ==
    ~ (\/ RGe(grid_x, RInt(grid_num)) \/ RLt(grid_x, RInt(0))
       \/ RGe(grid_y, RInt(grid_num)) \/ RLt(grid_y, RInt(0)))

(* the cells of state that query_state and the RMB handler index at the    *)
(* continuous grid coordinates (grid_x, grid_y): none when the guard fails *)
guarded_index(grid_x, grid_y) ==
    IF in_bounds(grid_x, grid_y)
    THEN { << RTrunc(grid_x), RTrunc(grid_y) >> }
    ELSE {}

(* (grid_x - i) < border_thickness or (grid_x - i) > 1 - border_thickness *)
near_edge(g) ==
    LET f == RSub(g, RInt(RTrunc(g)))
    IN  RLt(f, border_thickness) \/ RGt(f, RSub(RInt(1), border_thickness))

(* returns <<is_border, grid_state>> *)
query_state(st, cur, x, y) ==
    LET grid_x == world_to_grid(x)
        grid_y == world_to_grid(y)
        i == RTrunc(grid_x)
        j == RTrunc(grid_y)
    IN  IF in_bounds(grid_x, grid_y)
        THEN << near_edge(grid_x) \/ near_edge(grid_y), st[<<cur, i, j>>] >>
        ELSE << FALSE, 0 >>

(* x = pos_x + (c - res[0] / 2 + 0.5) / zoom *)
screen_to_world(pos, c, z) ==
    RAdd(pos, RDiv(RAdd(RSub(RInt(c), Rat(res, 2)), Rat(1, 2)), z))

pixel_color(st, cur, pos_x, pos_y, z, p) ==
    LET q == query_state(st, cur, screen_to_world(pos_x, p[1], z),
                                  screen_to_world(pos_y, p[2], z))
    IN  IF q[1] THEN BORDER_COLOR
        ELSE IF q[2] # 0 THEN ALIVE_COLOR
        ELSE DEAD_COLOR

draw(st, cur, pos_x, pos_y, z) ==
    [p \in Pixels |-> pixel_color(st, cur, pos_x, pos_y, z, p)]

----------------------------------------------------------------------------
(* The frame loop of __main__                                              *)

VARIABLES
    state,          \* state[<<buffer, i, j>>]: the two grids
    state_idx,      \* index of the current buffer
    frame_buffer,   \* frame_buffer[<<c, r>>]: the rendered image
    zoom, center_x, center_y,
    gui_state,      \* RUNNING or PAUSED
    elapsed,        \* time.time() - last_time, saturated at time_step + 1
    mouse_x0, mouse_y0, center_x0, center_y0,   \* captured at the LMB press
    zoom_new,       \* the module-level name zoom_new, Unbound until assigned
    lmb_pressed,    \* gui.is_pressed(ti.GUI.LMB)
    cursor,         \* gui.get_cursor_pos(), fixed while a frame runs
    events,         \* number of events still queued for gui.get_events in this
                    \* frame; the kind of each is chosen when it is dequeued
    pc,             \* position of the control thread in the loop body
    frame,          \* frames shown so far
    frame_steps,    \* steps taken in the current frame
    pending,        \* lanes of a running update() kernel not yet executed
    written,        \* cells written by the lanes executed so far
    hazard,         \* a lane read or wrote a cell another lane had written
    input,          \* the grid and index a step was started with
    zlog,           \* the scroll events handled so far, when they are logged
    anchor          \* the world point that was under the cursor before the
                    \* last scroll accepted in the frame being built

vars == << state, state_idx, frame_buffer, zoom, center_x, center_y, gui_state,
           elapsed, mouse_x0, mouse_y0, center_x0, center_y0, zoom_new,
           lmb_pressed, cursor, events, pc, frame, frame_steps,
           pending, written, hazard, input, zlog, anchor >>

grid_vars == << state, state_idx >>
view_vars == << zoom, center_x, center_y, zoom_new >>
drag_vars == << mouse_x0, mouse_y0, center_x0, center_y0 >>
kernel_vars == << pending, written, hazard, input >>
ghost_vars == << kernel_vars, zlog, anchor >>

Unbound == << >>

(* cursor positions, normalised to [0, 1]: the centre of pixel c is        *)
(* (c + 0.5) / res; the window system reports the first or the last pixel  *)
PixelCentre(c) == Rat(2 * c + 1, 2 * res)
PointerPos == { PixelCentre(0), PixelCentre(res - 1) }

Init ==
    /\ state = init_state
    /\ state_idx = 0
    /\ frame_buffer = init_frame_buffer
    /\ zoom = RInt(1)
    /\ center_x = RInt(0)
    /\ center_y = RInt(0)
    /\ gui_state = RUNNING
    /\ elapsed = 0
    /\ mouse_x0 = Unbound /\ mouse_y0 = Unbound
    /\ center_x0 = Unbound /\ center_y0 = Unbound
    /\ zoom_new = Unbound
    /\ lmb_pressed = FALSE
    /\ cursor \in PointerPos \X PointerPos
    /\ events = 0
    /\ pc = "tick"
    /\ frame = 0
    /\ frame_steps = 0
    /\ pending = {}
    /\ written = {}
    /\ hazard = FALSE
    /\ input = Unbound
    /\ zlog = << >>
    /\ anchor = Unbound

(* if time.time() > last_time + time_step and gui_state == RUNNING *)
\* faulty variant: the run state is not consulted
tick_due_any_state(el, gs) == el > time_step
tick_due(el, gs) == el > time_step /\ gs = RUNNING

TickStep ==
    /\ pc = "tick"
    /\ tick_due(elapsed, gui_state)
    /\ elapsed' = 0
    /\ state' = update(state, state_idx)
    /\ state_idx' = (IF state_idx = 0 THEN 1 ELSE 0)     \* state_idx ^ 1
    /\ frame_steps' = frame_steps + 1
    /\ pc' = "events"
    /\ UNCHANGED << frame_buffer, view_vars, gui_state, drag_vars, lmb_pressed,
                    cursor, events, frame, ghost_vars >>

TickSkip ==
    /\ pc = "tick"
    /\ ~ tick_due(elapsed, gui_state)
    /\ pc' = "events"
    /\ UNCHANGED << grid_vars, frame_buffer, view_vars, gui_state, elapsed,
                    drag_vars, lmb_pressed, cursor, events, frame, frame_steps,
                    ghost_vars >>

(* continue: on to the next queued event *)
\* faulty variant: break, dropping the rest of the queue
continue_break(q) == 0
continue_next(q) == q - 1

(* gui.get_events(gui.PRESS, gui.MOTION): a RELEASE event is consumed by   *)
(* the generator, which keeps the pressed keys up to date, and is not      *)
(* handed to the loop body                                                 *)
OnFiltered ==
    /\ pc = "events" /\ events > 0
    /\ lmb_pressed' = FALSE
    /\ events' = events - 1
    /\ UNCHANGED << grid_vars, frame_buffer, view_vars, gui_state, elapsed,
                    drag_vars, cursor, pc, frame, frame_steps, ghost_vars >>

(* e.key == ti.GUI.LMB: record position *)
OnLMB ==
    /\ pc = "events" /\ events > 0
    /\ lmb_pressed' = TRUE
    /\ mouse_x0' = cursor[1] /\ mouse_y0' = cursor[2]
    /\ center_x0' = center_x /\ center_y0' = center_y
    /\ events' = events - 1
    /\ UNCHANGED << grid_vars, frame_buffer, view_vars, gui_state, elapsed,
                    cursor, pc, frame, frame_steps, ghost_vars >>

(* e.key == ti.GUI.WHEEL: zoom about the cursor *)
zoom_in(z) == RMul(z, zoom_rate)
\* faulty variant: zooming out subtracts a fixed step
zoom_out_step(z) == RSub(z, Rat(1, 5))
zoom_out(z) == RDiv(z, zoom_rate)

(* zoom_new after the if / elif on e.delta[1]: with a delta of 0 neither   *)
(* branch assigns and the name keeps its earlier binding, if it has one    *)
next_zoom(z, zn, delta) ==
    IF delta > 0 THEN zoom_in(z)
    ELSE IF delta < 0 THEN zoom_out(z)
    ELSE zn

(* if zoom_new < 0.7: continue *)
\* faulty variant: a lower floor
below_floor_half(zn) == RLt(zn, Rat(1, 2))
below_floor(zn) == RLt(zn, zoom_floor)

(* center_x += (mouse_x - 0.5) * res[0] * (1 / zoom - 1 / zoom_new) *)
zoom_shift(c, m, z, zn) ==
    RAdd(c, RMul(RMul(RSub(m, Rat(1, 2)), RInt(res)), RSub(RInv(z), RInv(zn))))

(* the world coordinate shown at cursor coordinate m: the pixel the cursor *)
(* is on is drawn from center + (m - 0.5) * res / zoom                     *)
pointer_world(c, m, z) ==
    RAdd(c, RDiv(RMul(RSub(m, Rat(1, 2)), RInt(res)), z))

(* the exploration stops zooming in at zoom_rate^MaxZoomExp *)
ZoomCapped(zn) == zn # Unbound => RLe(zn, RPow(zoom_rate, MaxZoomExp))

Wheel(delta) ==
    /\ pc = "events" /\ events > 0
    /\ ZoomCapped(next_zoom(zoom, zoom_new, delta))
    /\ LET zn == next_zoom(zoom, zoom_new, delta)
       IN  IF zn = Unbound
           THEN \* NameError: name 'zoom_new' is not defined
                /\ pc' = "crashed"
                /\ UNCHANGED << view_vars, events, anchor >>
           ELSE IF below_floor(zn)
           THEN /\ zoom_new' = zn
                /\ events' = continue_next(events)
                /\ UNCHANGED << zoom, center_x, center_y, pc, anchor >>
           ELSE /\ zoom_new' = zn
                /\ anchor' = << pointer_world(center_x, cursor[1], zoom),
                                pointer_world(center_y, cursor[2], zoom) >>
                /\ center_x' = zoom_shift(center_x, cursor[1], zoom, zn)
                /\ center_y' = zoom_shift(center_y, cursor[2], zoom, zn)
                /\ zoom' = zn
                /\ events' = events - 1
                /\ UNCHANGED pc
    /\ UNCHANGED << grid_vars, frame_buffer, gui_state, elapsed, drag_vars,
                    lmb_pressed, cursor, frame, frame_steps, kernel_vars >>

OnWHEELUp == Wheel(1) /\ UNCHANGED zlog
OnWHEELDown == Wheel(-1) /\ UNCHANGED zlog
OnWHEELFlat == Wheel(0) /\ UNCHANGED zlog

(* e.key == ti.GUI.RMB: toggle the state of the selected cell *)
(* grid_x = (center_x + (mouse_x - 0.5) * res[0] / zoom) / grid_size + grid_num / 2 *)
\* faulty variant: the cursor is measured from the window corner
pick_grid_corner(c, m, z) ==
    world_to_grid(RAdd(c, RDiv(RMul(m, RInt(res)), z)))
pick_grid(c, m, z) ==
    world_to_grid(RAdd(c, RDiv(RMul(RSub(m, Rat(1, 2)), RInt(res)), z)))

(* state[state_idx[None], int(grid_x), int(grid_y)] ^= 1 *)
\* faulty variant: the cell is incremented
toggle_incr(st, cur, i, j) == [st EXCEPT ![<<cur, i, j>>] = @ + 1]
\* faulty variant: the cell of the other buffer is flipped
toggle_next(st, cur, i, j) == [st EXCEPT ![<<1 - cur, i, j>>] = 1 - @]
toggle(st, cur, i, j) == [st EXCEPT ![<<cur, i, j>>] = 1 - @]

(* the RMB handler ignores the press while the simulation runs *)
rmb_ignored(gs) == gs = RUNNING

PickX == pick_grid(center_x, cursor[1], zoom)
PickY == pick_grid(center_y, cursor[2], zoom)

OnRMB ==
    /\ pc = "events" /\ events > 0
    /\ IF rmb_ignored(gui_state)
       THEN /\ events' = continue_next(events)
            /\ UNCHANGED state
       ELSE /\ state' = (IF in_bounds(PickX, PickY)
                         THEN toggle(state, state_idx, RTrunc(PickX), RTrunc(PickY))
                         ELSE state)
            /\ events' = events - 1
    /\ UNCHANGED << state_idx, frame_buffer, view_vars, gui_state, elapsed,
                    drag_vars, lmb_pressed, cursor, pc, frame, frame_steps,
                    ghost_vars >>

(* e.key == ti.GUI.SPACE: pause / resume *)
\* faulty variant: SPACE pauses and never resumes
OnSPACE_pause_only ==
    /\ pc = "events" /\ events > 0
    /\ gui_state' = PAUSED
    /\ events' = events - 1
    /\ UNCHANGED << grid_vars, frame_buffer, view_vars, elapsed, drag_vars,
                    lmb_pressed, cursor, pc, frame, frame_steps, ghost_vars >>
OnSPACE ==
    /\ pc = "events" /\ events > 0
    /\ gui_state' = (IF gui_state = RUNNING THEN PAUSED ELSE RUNNING)
    /\ events' = events - 1
    /\ UNCHANGED << grid_vars, frame_buffer, view_vars, elapsed, drag_vars,
                    lmb_pressed, cursor, pc, frame, frame_steps, ghost_vars >>

(* a MOTION event of the pointer: no branch of the if / elif chain matches *)
OnOther ==
    /\ pc = "events" /\ events > 0
    /\ events' = events - 1
    /\ UNCHANGED << grid_vars, frame_buffer, view_vars, gui_state, elapsed,
                    drag_vars, lmb_pressed, cursor, pc, frame, frame_steps,
                    ghost_vars >>

(* the for loop over the events ends *)
\* faulty variant: the loop is left while events are still queued
EventsDone_early ==
    /\ pc = "events" /\ events >= 0
    /\ pc' = "drag"
    /\ UNCHANGED << grid_vars, frame_buffer, view_vars, gui_state, elapsed,
                    drag_vars, lmb_pressed, cursor, events, frame, frame_steps,
                    ghost_vars >>
EventsDone ==
    /\ pc = "events" /\ events = 0
    /\ pc' = "drag"
    /\ UNCHANGED << grid_vars, frame_buffer, view_vars, gui_state, elapsed,
                    drag_vars, lmb_pressed, cursor, events, frame, frame_steps,
                    ghost_vars >>

(* center_x = center_x0 + (mouse_x0 - mouse_x) * res[0] / zoom *)
\* faulty variant: the pointer offset is multiplied by zoom
drag_center_times(c0, m0, m, z) ==
    RAdd(c0, RMul(RMul(RSub(m0, m), RInt(res)), z))
drag_center(c0, m0, m, z) ==
    RAdd(c0, RDiv(RMul(RSub(m0, m), RInt(res)), z))

DragRecompute ==
    /\ pc = "drag" /\ lmb_pressed
    /\ center_x' = drag_center(center_x0, mouse_x0, cursor[1], zoom)
    /\ center_y' = drag_center(center_y0, mouse_y0, cursor[2], zoom)
    /\ pc' = "draw"
    /\ UNCHANGED << grid_vars, frame_buffer, zoom, zoom_new, gui_state, elapsed,
                    drag_vars, lmb_pressed, cursor, events, frame, frame_steps,
                    ghost_vars >>

DragSkip ==
    /\ pc = "drag" /\ ~ lmb_pressed
    /\ pc' = "draw"
    /\ UNCHANGED << grid_vars, frame_buffer, view_vars, gui_state, elapsed,
                    drag_vars, lmb_pressed, cursor, events, frame, frame_steps,
                    ghost_vars >>

(* draw(center_x, center_y, zoom); gui.set_image(frame_buffer) *)
Draw ==
    /\ pc = "draw"
    /\ frame_buffer' = draw(state, state_idx, center_x, center_y, zoom)
    /\ pc' = "show"
    /\ anchor' = Unbound
    /\ UNCHANGED << grid_vars, view_vars, gui_state, elapsed, drag_vars,
                    lmb_pressed, cursor, events, frame, frame_steps,
                    kernel_vars, zlog >>

(* gui.show(): the frame is presented, time passes, the window system      *)
(* moves the cursor and queues the input that arrived                      *)
Min(a, b) == IF a < b THEN a ELSE b

Show ==
    /\ pc = "show"
    /\ frame < MaxFrames
    /\ frame' = frame + 1
    /\ frame_steps' = 0
    /\ \E dt \in {1, time_step + 1} : elapsed' = Min(elapsed + dt, time_step + 1)
    /\ cursor' \in PointerPos \X PointerPos
    /\ events' \in 0 .. MaxQueue
    /\ pc' = "tick"
    /\ UNCHANGED << grid_vars, frame_buffer, view_vars, gui_state, drag_vars,
                    lmb_pressed, ghost_vars >>

Next ==
    \/ TickStep \/ TickSkip
    \/ OnFiltered \/ OnLMB \/ OnWHEELUp \/ OnWHEELDown \/ OnWHEELFlat \/ OnRMB \/ OnSPACE \/ OnOther
    \/ EventsDone
    \/ DragRecompute \/ DragSkip
    \/ Draw
    \/ Show

Spec == Init /\ [][Next]_vars

----------------------------------------------------------------------------
(* One step, update() followed by the index flip, applied to any grid      *)

AllDead == [c \in Cells |-> 0]
AllAlive == [c \in Cells |-> 1]
SeedGrid == [c \in Cells |-> IF c \in SeedCells THEN 1 ELSE 0]
Grids == [Cells -> {0, 1}]

(* the two buffers, cur being the content of buffer idx *)
MakeState(idx, cur, other) ==
    [l \in Lanes |-> IF l[1] = idx THEN cur[<<l[2], l[3]>>] ELSE other[<<l[2], l[3]>>]]

Buffer(st, idx) == [c \in Cells |-> st[<<idx, c[1], c[2]>>]]

(* everything but the grid and the view as it is after construction *)
RestAtStart ==
    /\ frame_buffer = init_frame_buffer
    /\ gui_state = RUNNING
    /\ elapsed = 0
    /\ mouse_x0 = Unbound /\ mouse_y0 = Unbound
    /\ center_x0 = Unbound /\ center_y0 = Unbound
    /\ lmb_pressed = FALSE
    /\ frame = 0
    /\ frame_steps = 0
    /\ zlog = << >>
    /\ anchor = Unbound

ViewAtStart ==
    /\ RestAtStart
    /\ zoom = RInt(1)
    /\ center_x = RInt(0)
    /\ center_y = RInt(0)
    /\ zoom_new = Unbound
    /\ cursor = << PixelCentre(0), PixelCentre(0) >>
    /\ events = 0

(* the stale buffer is arbitrary when the current one is all dead *)
InitStep ==
    /\ ViewAtStart
    /\ state_idx \in {0, 1}
    /\ \E cur \in Grids :
         \E other \in (IF cur = AllDead THEN Grids ELSE {AllDead, AllAlive, cur}) :
            state = MakeState(state_idx, cur, other)
    /\ input = [state |-> state, idx |-> state_idx]
    /\ pending = {}
    /\ written = {}
    /\ hazard = FALSE
    /\ pc = "step"

StepOnce ==
    /\ pc = "step"
    /\ state' = update(state, state_idx)
    /\ state_idx' = (IF state_idx = 0 THEN 1 ELSE 0)
    /\ pc' = "done"
    /\ UNCHANGED << frame_buffer, view_vars, gui_state, elapsed, drag_vars,
                    lmb_pressed, cursor, events, frame, frame_steps, ghost_vars >>

SpecStep == InitStep /\ [][StepOnce]_vars

----------------------------------------------------------------------------
(* update() with its lanes executed one at a time, in any order            *)

(* the cells lane (i, j) of buffer cur reads and the cell it writes *)
lane_reads(cur, i, j) ==
    { <<cur, c[1], c[2]>> : c \in neighbor_reads(i, j) \cup {<<i, j>>} }
lane_write(cur, i, j) == <<nxt_state_idx(cur), i, j>>

(* the grids the kernel is started on *)
LaneGrids ==
    {SeedGrid, AllAlive} \cup
    { [SeedGrid EXCEPT ![c] = 1 - @] : c \in Cells }

(* lanes of the other buffer fail the test idx == cur_state_idx and touch  *)
(* nothing: they are stuttering steps and are not tracked in pending       *)
InitLanes ==
    /\ ViewAtStart
    /\ state_idx \in {0, 1}
    /\ \E cur \in LaneGrids : \E other \in {AllDead, AllAlive} :
            state = MakeState(state_idx, cur, other)
    /\ input = [state |-> state, idx |-> state_idx]
    /\ pending = { l \in Lanes : l[1] = state_idx }
    /\ written = {}
    /\ hazard = FALSE
    /\ pc = "update"

RunLane(l) ==
    /\ pc = "update"
    /\ l \in pending
    /\ hazard' = (\/ hazard
                  \/ lane_reads(input.idx, l[2], l[3]) \cap written # {}
                  \/ lane_write(input.idx, l[2], l[3]) \in written)
    /\ state' = update_lane(state, input.idx, l)
    /\ written' = written \cup {lane_write(input.idx, l[2], l[3])}
    /\ pending' = pending \ {l}
    /\ UNCHANGED << state_idx, frame_buffer, view_vars, gui_state, elapsed,
                    drag_vars, lmb_pressed, cursor, events, pc, frame,
                    frame_steps, input, zlog, anchor >>

RunSomeLane == \E l \in Lanes : RunLane(l)

(* the kernel has returned: state_idx[None] = state_idx[None] ^ 1 *)
\* faulty variant: the index is flipped without waiting for the lanes
KernelDone_early ==
    /\ pc = "update"
    /\ pending \subseteq Lanes
    /\ state_idx' = (IF state_idx = 0 THEN 1 ELSE 0)
    /\ pc' = "done"
    /\ UNCHANGED << state, frame_buffer, view_vars, gui_state, elapsed,
                    drag_vars, lmb_pressed, cursor, events, frame, frame_steps,
                    ghost_vars >>
KernelDone ==
    /\ pc = "update"
    /\ pending = {}
    /\ state_idx' = (IF state_idx = 0 THEN 1 ELSE 0)
    /\ pc' = "done"
    /\ UNCHANGED << state, frame_buffer, view_vars, gui_state, elapsed,
                    drag_vars, lmb_pressed, cursor, events, frame, frame_steps,
                    ghost_vars >>

NextLanes == RunSomeLane \/ KernelDone

SpecLanes == InitLanes /\ [][NextLanes]_vars

----------------------------------------------------------------------------
(* draw() applied to any view                                              *)

Pans == { Rat(k, 4) : k \in -4 * MaxPan .. 4 * MaxPan }
Zooms == { RInv(zoom_rate) } \cup { RPow(zoom_rate, k) : k \in 0 .. MaxZoomExp }

InitDraw ==
    /\ RestAtStart
    /\ center_x \in Pans
    /\ center_y \in Pans
    /\ zoom \in Zooms
    /\ zoom_new = zoom
    /\ cursor = << PixelCentre(0), PixelCentre(0) >>
    /\ events = 0
    /\ state_idx \in {0, 1}
    /\ \E cur \in {AllAlive, SeedGrid} :
          state = MakeState(state_idx, cur, AllAlive)
    /\ input = Unbound
    /\ pending = {}
    /\ written = {}
    /\ hazard = FALSE
    /\ pc = "draw"

SpecDraw == InitDraw /\ [][Draw]_vars

----------------------------------------------------------------------------
(* The WHEEL handler applied to runs of scroll events, each one logged     *)

InitZoom ==
    /\ RestAtStart
    /\ zoom = RInt(1)
    /\ center_x = RInt(0)
    /\ center_y = RInt(0)
    /\ zoom_new = Unbound
    /\ cursor \in PointerPos \X PointerPos
    /\ events = MaxScrolls
    /\ state = init_state
    /\ state_idx = 0
    /\ input = Unbound
    /\ pending = {}
    /\ written = {}
    /\ hazard = FALSE
    /\ pc = "events"

Scroll(delta) ==
    /\ Wheel(delta)
    /\ zlog' = Append(zlog, [delta |-> delta, before |-> zoom, after |-> zoom',
                             accepted |-> pc' = "events" /\ zoom_new' = zoom'])

ScrollUp == Scroll(1)
ScrollDown == Scroll(-1)
ScrollFlat == Scroll(0)

NextZoom == ScrollUp \/ ScrollDown \/ ScrollFlat

SpecZoom == InitZoom /\ [][NextZoom]_vars

----------------------------------------------------------------------------
(* Properties of the step                                                  *)

(* B3/S23 on a single grid g, out-of-range neighbours counting as dead *)
LiveNeighbours(g, c) ==
    Cardinality({ d \in Offsets \ {<<0, 0>>} :
                    /\ <<c[1] + d[1], c[2] + d[2]>> \in Cells
                    /\ g[<<c[1] + d[1], c[2] + d[2]>>] = 1 })
AliveNext(g, c) ==
    \/ g[c] = 0 /\ LiveNeighbours(g, c) = 3
    \/ g[c] = 1 /\ LiveNeighbours(g, c) \in {2, 3}
OnCorner(c) == c[1] \in {0, grid_num - 1} /\ c[2] \in {0, grid_num - 1}
OnEdge(c) == c[1] \in {0, grid_num - 1} \/ c[2] \in {0, grid_num - 1}

OldGrid == Buffer(input.state, input.idx)
NewGrid == Buffer(state, state_idx)

(* C1: after one step every cell of the new current buffer is 1 iff, in    *)
(* the old current buffer, it was dead with exactly 3 live in-range        *)
(* neighbours or alive with 2 or 3; the count the code makes for a corner  *)
(* cell is at most 3 and for an edge cell at most 5 (no wraparound)        *)
C1_StepRule ==
    pc = "done" =>
        /\ state_idx = 1 - input.idx
        /\ \A c \in Cells :
              /\ (NewGrid[c] = 1) <=> AliveNext(OldGrid, c)
              /\ NewGrid[c] \in {0, 1}
              /\ OnCorner(c) => count_alive(input.state, input.idx, c[1], c[2]) <= 3
              /\ OnEdge(c) => count_alive(input.state, input.idx, c[1], c[2]) <= 5

(* a birth, a death by overcrowding, a death by isolation and a survival   *)
(* in one step, the birth being in a corner                                *)
C1_Witness ==
    /\ pc = "done"
    /\ \E c \in Cells : OnCorner(c) /\ OldGrid[c] = 0 /\ NewGrid[c] = 1
    /\ \E c \in Cells : OldGrid[c] = 1 /\ LiveNeighbours(OldGrid, c) > 3 /\ NewGrid[c] = 0
    /\ \E c \in Cells : OldGrid[c] = 1 /\ LiveNeighbours(OldGrid, c) < 2 /\ NewGrid[c] = 0
    /\ \E c \in Cells : OldGrid[c] = 1 /\ NewGrid[c] = 1

(* C2: with the lanes of update() run one at a time in any order, no lane  *)
(* reads or writes a cell another lane of the step has written, every      *)
(* write goes to the lane's own cell of the next buffer, the current       *)
(* buffer is never modified, and once all lanes have run the next buffer   *)
(* is the one the index-order execution produces                           *)
C2_LanesIndependent ==
    pc \in {"update", "done"} =>
        /\ ~ hazard
        /\ written = { <<1 - input.idx, l[2], l[3]>> :
                          l \in { k \in Lanes : k[1] = input.idx } \ pending }
        /\ Buffer(state, input.idx) = OldGrid
        /\ pending = {} =>
              Buffer(state, 1 - input.idx)
                 = Buffer(update(input.state, input.idx), 1 - input.idx)

(* all lanes have run, on a grid whose next generation differs from it and *)
(* from the stale content of the next buffer                               *)
C2_Witness ==
    /\ pc = "update"
    /\ pending = {}
    /\ Cardinality(written) = grid_num * grid_num
    /\ Buffer(state, 1 - input.idx) # OldGrid
    /\ Buffer(state, 1 - input.idx) # Buffer(input.state, 1 - input.idx)

(* the hand-derived successor of the seed pattern *)
SeedSuccessor ==
    { <<center - 1, center>>, <<center, center + 1>>, <<center + 1, center - 1>>,
      <<center + 1, center>>, <<center + 1, center + 1>> }

(* C3: the first step from the seeded grid (buffer 0 current and holding   *)
(* the seed, buffer 1 all dead) yields a current buffer whose live cells   *)
(* are exactly the hand-derived successor of the seed                      *)
C3_SeedSuccessor ==
    [][ (state = init_state /\ state_idx = 0 /\ state_idx' # state_idx)
          => /\ state_idx' = 1
             /\ { c \in Cells : state'[<<1, c[1], c[2]>>] = 1 } = SeedSuccessor ]_vars

(* the first step has just run on the untouched seed *)
C3_Witness ==
    /\ pc = "events"
    /\ frame_steps = 1
    /\ state_idx = 1
    /\ Buffer(state, 0) = SeedGrid
    /\ Buffer(state, 1) # AllDead

(* C4: a step from an all-dead current buffer yields an all-dead current   *)
(* buffer, whatever the stale buffer held                                  *)
C4_NoSpontaneousGeneration ==
    (pc = "done" /\ OldGrid = AllDead) => NewGrid = AllDead

(* the step ran on an all-dead grid whose stale buffer held the seed *)
C4_Witness ==
    /\ pc = "done"
    /\ OldGrid = AllDead
    /\ Buffer(input.state, 1 - input.idx) = SeedGrid
    /\ input.idx = 1

----------------------------------------------------------------------------
(* Properties of the frame loop                                            *)

(* C5: zoom never goes below the floor 0.7; zoom being a power of          *)
(* zoom_rate, it never goes below zoom_rate^-1                             *)
C5_ZoomFloor ==
    /\ RGe(zoom, zoom_floor)
    /\ RGe(zoom, RInv(zoom_rate))

(* zoom is at zoom_rate^-1 and a further scroll-down has been rejected *)
C5_Witness ==
    /\ zoom = RInv(zoom_rate)
    /\ zoom_new # Unbound
    /\ RLt(zoom_new, zoom_floor)
    /\ RLt(zoom_new, zoom)

(* the cell the cursor is over: i <= grid_x < i + 1 and j <= grid_y < j + 1 *)
CursorOver(c) ==
    /\ RLe(RInt(c[1]), PickX) /\ RLt(PickX, RInt(c[1] + 1))
    /\ RLe(RInt(c[2]), PickY) /\ RLt(PickY, RInt(c[2] + 1))
CursorInGrid == \E c \in Cells : CursorOver(c)

(* the current buffer as the step of the other buffer left it, but for     *)
(* the n cells of Cells toggled since                                      *)
ToggledSinceStep ==
    { c \in Cells :
        (state[<<state_idx, c[1], c[2]>>] = 1)
            # AliveNext(Buffer(state, 1 - state_idx), c) }

(* C6: while Paused a secondary-button press over in-range cell (i, j)     *)
(* flips exactly cell (i, j) of the current buffer and changes no other    *)
(* cell of either buffer, nor the index, pan, zoom or run state; and a     *)
(* step computes the next generation from the current buffer as toggled    *)
C6_ToggleFlipsOneCell ==
    [][ /\ \A c \in Cells :
              (OnRMB /\ gui_state = PAUSED /\ CursorOver(c))
                 => /\ state' = [state EXCEPT ![<<state_idx, c[1], c[2]>>] = 1 - @]
                    /\ state'[<<state_idx, c[1], c[2]>>] # state[<<state_idx, c[1], c[2]>>]
                    /\ UNCHANGED << state_idx, center_x, center_y, zoom, gui_state >>
        /\ TickStep
              => \A c \in Cells :
                    (state'[<<state_idx', c[1], c[2]>>] = 1)
                        <=> AliveNext(Buffer(state, state_idx), c) ]_vars

(* Paused with buffer 1 current: exactly one cell has been toggled since   *)
(* the step that filled it                                                 *)
C6_Witness ==
    /\ gui_state = PAUSED
    /\ state_idx = 1
    /\ pc = "events"
    /\ Cardinality(ToggledSinceStep) = 1

(* C7: a secondary-button press while Running, or while Paused with the    *)
(* cursor outside the grid, changes no cell, index, pan, zoom or run       *)
(* state, and the loop goes on to the remaining queued events              *)
C7_IgnoredPressIsNoOp ==
    [][ (OnRMB /\ (gui_state = RUNNING \/ ~ CursorInGrid))
          => /\ UNCHANGED << state, state_idx, center_x, center_y, zoom, gui_state >>
             /\ events' = events - 1
             /\ pc' = "events" ]_vars

(* Paused with the cursor outside the grid and two events queued *)
C7_Witness ==
    /\ gui_state = PAUSED
    /\ pc = "events"
    /\ events >= 2
    /\ ~ CursorInGrid

(* C8: the index flips (a step occurs) only while Running with more than   *)
(* time_step elapsed, and only if no step has occurred in this frame; in a *)
(* Paused state the index does not change and the grid changes only by     *)
(* the secondary-button handler                                            *)
C8_StepOnlyWhenDue ==
    [][ /\ (state_idx' # state_idx \/ frame_steps' > frame_steps)
              => /\ gui_state = RUNNING
                 /\ elapsed > time_step
                 /\ frame_steps = 0
                 /\ TickStep
        /\ gui_state = PAUSED
              => /\ state_idx' = state_idx
                 /\ state' # state => OnRMB
        /\ frame_steps' <= 1 ]_vars

(* Paused, the interval long elapsed, and the tick of this frame skipped *)
C8_Witness ==
    /\ gui_state = PAUSED
    /\ elapsed > time_step
    /\ pc = "events"
    /\ frame_steps = 0

----------------------------------------------------------------------------
(* Properties of the renderer and of zooming                               *)

(* the world position of pixel column or row c lies off the grid, which    *)
(* spans [-grid_num * grid_size / 2, grid_num * grid_size / 2)             *)
OffGrid(pos, c) ==
    LET x == screen_to_world(pos, c, zoom)
        h == Rat(grid_num * grid_size, 2)
    IN  RLt(x, RNeg(h)) \/ RGe(x, h)
PixelOffGrid(p) == OffGrid(center_x, p[1]) \/ OffGrid(center_y, p[2])

(* the continuous grid coordinate of column or row c is in (-1, 0) *)
JustBelowZero(pos, c) ==
    LET g == world_to_grid(screen_to_world(pos, c, zoom))
    IN  RLt(RInt(-1), g) /\ RLt(g, RInt(0))

(* C9: every pixel whose world position maps to a continuous grid          *)
(* coordinate outside [0, grid_num) in x or y is drawn in the dead colour  *)
C9_OffGridIsDeadColor ==
    pc = "show" =>
        \A p \in Pixels : PixelOffGrid(p) => frame_buffer[p] = DEAD_COLOR

(* a pixel whose x coordinate is in (-1, 0) and whose y is in range, over  *)
(* a grid that is all alive, has been drawn dead, next to an alive pixel   *)
C9_Witness ==
    /\ pc = "show"
    /\ Buffer(state, state_idx) = AllAlive
    /\ \E p \in Pixels :
          /\ JustBelowZero(center_x, p[1])
          /\ ~ OffGrid(center_y, p[2])
          /\ frame_buffer[p] = DEAD_COLOR
    /\ \E p \in Pixels : frame_buffer[p] = ALIVE_COLOR

(* entries p + 1 .. p + n of the log are accepted scrolls of direction d *)
Run(p, n, d) ==
    \A m \in p + 1 .. p + n : zlog[m].delta = d /\ zlog[m].accepted

(* C10: k accepted scroll-ups followed by k accepted scroll-downs, or k    *)
(* downs followed by k ups, none rejected by the floor, return zoom to     *)
(* the value it had before them                                            *)
C10_ZoomRoundTrip ==
    \A k \in 1 .. MaxScrolls : \A p \in 0 .. MaxScrolls :
        (/\ p + 2 * k <= Len(zlog)
         /\ \/ Run(p, k, 1) /\ Run(p + k, k, -1)
            \/ Run(p, k, -1) /\ Run(p + k, k, 1))
        => zlog[p + 2 * k].after = zlog[p + 1].before

(* two ups then two downs, starting from a zoom other than the initial     *)
(* one, and two downs then two ups have been handled, moving zoom          *)
C10_Witness ==
    /\ \E p \in 0 .. MaxScrolls :
          /\ p + 4 <= Len(zlog)
          /\ Run(p, 2, 1) /\ Run(p + 2, 2, -1)
          /\ zlog[p + 1].before # RInt(1)
          /\ zlog[p + 2].after # zlog[p + 1].before
    /\ \E p \in 0 .. MaxScrolls :
          /\ p + 4 <= Len(zlog)
          /\ Run(p, 2, -1) /\ Run(p + 2, 2, 1)

----------------------------------------------------------------------------
(* C11: after a scroll was accepted in a frame, whatever the input state   *)
(* (the left button may be held), the frame that is rendered next shows    *)
(* under the cursor the world point that was under it before the scroll:   *)
(* center + (cursor - 0.5) * res / zoom is what it was before the scroll   *)
C11_ZoomKeepsPointUnderCursor ==
    (pc = "draw" /\ anchor # Unbound)
        => /\ pointer_world(center_x, cursor[1], zoom) = anchor[1]
           /\ pointer_world(center_y, cursor[2], zoom) = anchor[2]

----------------------------------------------------------------------------
(* C12: in every frame the queued events are processed, then the           *)
(* conditional step runs, then the frame is rendered: a step never runs    *)
(* while events of its frame are still queued, and a SPACE press that      *)
(* pauses is never handled in a frame that has already stepped             *)
C12_EventsThenStepThenRender ==
    [][/\ TickStep => events = 0
       /\ (OnSPACE /\ gui_state' = PAUSED) => frame_steps = 0]_vars

(* C12, as the loop is written: the conditional step comes first, with     *)
(* every event of the frame still queued, then the events are handled,     *)
(* then the frame is rendered with no event left; a SPACE press that       *)
(* pauses leaves the step of its own frame in place and the grid does not  *)
(* step again while the run state stays PAUSED                             *)
C12_StepThenEventsThenRender ==
    [][/\ (state_idx' # state_idx \/ frame_steps' > frame_steps)
            => (pc = "tick" /\ pc' = "events" /\ events' = events)
       /\ events' < events => (pc = "events" /\ pc' = "events")
       /\ (frame_buffer' # frame_buffer \/ pc' = "show")
            => (pc = "draw" /\ events = 0)
       /\ (OnSPACE /\ gui_state' = PAUSED)
            => (frame_steps' = frame_steps /\ UNCHANGED grid_vars)
       /\ gui_state = PAUSED
            => (state_idx' = state_idx /\ frame_steps' <= frame_steps)]_vars

(* a frame that stepped and then handled its last event, a SPACE press     *)
(* that paused, and has been rendered                                      *)
C12_Witness ==
    /\ pc = "show"
    /\ frame_steps = 1
    /\ gui_state = PAUSED
    /\ events = 0
    /\ frame = 1

----------------------------------------------------------------------------
(* C13: in every reachable state every cell of both buffers is 0 or 1 and  *)
(* the current-buffer index is 0 or 1                                      *)
C13_BitsAndIndex ==
    /\ state \in [Lanes -> {0, 1}]
    /\ state_idx \in {0, 1}

(* a frame has been rendered after a step filled buffer 1 and a press      *)
(* toggled a cell of it; both buffers hold live cells                      *)
C13_Witness ==
    /\ pc = "show"
    /\ state_idx = 1
    /\ ToggledSinceStep # {}
    /\ Buffer(state, 0) # AllDead
    /\ Buffer(state, 1) # AllDead

----------------------------------------------------------------------------
(* C14: the index is flipped once per step, by the step alone and only     *)
(* when every lane has run and all grid_num * grid_num cells of the next   *)
(* buffer have been written; the flip changes no cell; so whatever runs    *)
(* after the step (a render, a toggle) finds a current buffer every cell   *)
(* of which was written by that step                                       *)
C14_FlipAfterAllWrites ==
    [][/\ state_idx' # state_idx
            => /\ KernelDone
               /\ pending = {}
               /\ written = { <<1 - state_idx, c[1], c[2]>> : c \in Cells }
               /\ state_idx' = 1 - state_idx
               /\ state_idx = input.idx
               /\ state' = state
       /\ pc' = "done"
            => /\ state_idx' = 1 - input.idx
               /\ \A c \in Cells : <<state_idx', c[1], c[2]>> \in written'
               /\ Buffer(state', state_idx')
                      = Buffer(update(input.state, input.idx), state_idx')
       /\ pc = "done" => UNCHANGED grid_vars]_vars

(* the step is over: the index points at the buffer the lanes filled,      *)
(* whose content differs from what it held before and from the old grid    *)
C14_Witness ==
    /\ pc = "done"
    /\ state_idx = 1 - input.idx
    /\ Cardinality(written) = grid_num * grid_num
    /\ Buffer(state, state_idx) # Buffer(input.state, state_idx)
    /\ Buffer(state, state_idx) # OldGrid

----------------------------------------------------------------------------
(* cursor coordinates: the centre of every pixel and the window edges *)
CursorRange == { PixelCentre(c) : c \in 0 .. res - 1 } \cup { RInt(0), RInt(1) }

(* the cells draw() indexes for pixel p and the RMB handler for cursor m *)
PixelIndex(p) ==
    guarded_index(world_to_grid(screen_to_world(center_x, p[1], zoom)),
                  world_to_grid(screen_to_world(center_y, p[2], zoom)))
ClickIndex(m) ==
    guarded_index(pick_grid(center_x, m[1], zoom), pick_grid(center_y, m[2], zoom))

(* C15: no operation indexes a buffer outside [0, grid_num): the cells     *)
(* init() seeds and the neighbours update() reads are in range for every   *)
(* cell, and for every pan, zoom, pixel and cursor position the cell that  *)
(* draw() looks up or the RMB handler toggles is in range                  *)
C15_IndicesInRange ==
    /\ SeedCells \subseteq Cells
    /\ \A c \in Cells : neighbor_reads(c[1], c[2]) \subseteq Cells
    /\ \A p \in Pixels : PixelIndex(p) \subseteq Cells
    /\ \A m \in CursorRange \X CursorRange : ClickIndex(m) \subseteq Cells

(* a frame has been drawn in which one pixel lies at or beyond the upper   *)
(* edge of the grid, one before the lower edge, and one samples the last   *)
(* cell; a click at the far corner of the window is off the grid           *)
C15_Witness ==
    /\ pc = "show"
    /\ \E p \in Pixels :
          RGe(world_to_grid(screen_to_world(center_x, p[1], zoom)), RInt(grid_num))
    /\ \E p \in Pixels :
          RLt(world_to_grid(screen_to_world(center_y, p[2], zoom)), RInt(0))
    /\ \E p \in Pixels : PixelIndex(p) = { << grid_num - 1, grid_num - 1 >> }
    /\ ClickIndex(<< RInt(1), RInt(1) >>) = {}

----------------------------------------------------------------------------
(* C16: the run state starts as RUNNING; every SPACE press turns RUNNING   *)
(* into PAUSED and PAUSED into RUNNING, so that two presses restore it,    *)
(* whether queued in one frame or not; nothing else changes the run state  *)
C16_SpaceTogglesRunState ==
    /\ gui_state = RUNNING
    /\ [][/\ OnSPACE => /\ gui_state = RUNNING => gui_state' = PAUSED
                        /\ gui_state = PAUSED => gui_state' = RUNNING
          /\ gui_state' # gui_state => OnSPACE
          /\ gui_state' \in {RUNNING, PAUSED}]_vars

(* RUNNING again after a pause: the tick of this frame was skipped with    *)
(* the interval elapsed, so the state was PAUSED then, and a SPACE press   *)
(* of this frame has resumed                                               *)
C16_Witness ==
    /\ gui_state = RUNNING
    /\ pc = "events"
    /\ frame_steps = 0
    /\ elapsed > time_step

----------------------------------------------------------------------------
(* a scroll-down from the present zoom would end below the floor *)
DownRejected == RLt(RDiv(zoom, zoom_rate), zoom_floor)

(* C17: zoom changes only in the handling of a scroll event whose result   *)
(* is at or above the floor, to zoom * zoom_rate or zoom / zoom_rate; a    *)
(* scroll whose result is below the floor is rejected: it changes neither  *)
(* zoom nor pan and the loop goes on with the next event                   *)
C17_ZoomOnlyByAcceptedScroll ==
    [][/\ zoom' # zoom
            => /\ \/ OnWHEELUp /\ zoom' = RMul(zoom, zoom_rate)
                  \/ OnWHEELDown /\ zoom' = RDiv(zoom, zoom_rate)
               /\ RGe(zoom', zoom_floor)
       /\ (OnWHEELDown /\ DownRejected)
            => /\ UNCHANGED << zoom, center_x, center_y >>
               /\ pc' = "events"
               /\ events' = events - 1]_vars

(* a scroll-down moved the pan and took zoom to zoom_rate^-1, and a second *)
(* one has been rejected: the pan and the zoom are still those             *)
C17_Witness ==
    /\ zoom = RInv(zoom_rate)
    /\ zoom_new # Unbound
    /\ RLt(zoom_new, zoom_floor)
    /\ center_x # RInt(0)
    /\ ~ lmb_pressed
    /\ mouse_x0 = Unbound

----------------------------------------------------------------------------
(* A drag in progress: the frames that follow the one in which the left    *)
(* button was pressed, the simulation being paused                         *)

InitDrag ==
    /\ state = init_state
    /\ state_idx = 0
    /\ zoom = RInt(1)
    /\ center_x = RInt(0)
    /\ center_y = RInt(0)
    /\ zoom_new = Unbound
    /\ cursor \in PointerPos \X PointerPos
    /\ lmb_pressed = TRUE
    /\ mouse_x0 = cursor[1] /\ mouse_y0 = cursor[2]
    /\ center_x0 = center_x /\ center_y0 = center_y
    /\ frame_buffer = draw(state, state_idx, center_x, center_y, zoom)
    /\ gui_state = PAUSED
    /\ elapsed = 0
    /\ events = 0
    /\ pc = "show"
    /\ frame = 0
    /\ frame_steps = 0
    /\ pending = {}
    /\ written = {}
    /\ hazard = FALSE
    /\ input = Unbound
    /\ zlog = << >>
    /\ anchor = Unbound

NextDrag ==
    \/ TickSkip
    \/ OnFiltered \/ OnLMB \/ OnWHEELUp \/ OnWHEELDown
    \/ EventsDone
    \/ DragRecompute \/ DragSkip
    \/ Draw
    \/ Show

SpecDrag == InitDrag /\ [][NextDrag]_vars

(* C18: a left-button press captures the pan and the cursor; while the     *)
(* button is held, the pan the frame is drawn with is                      *)
(* captured pan + (captured cursor - cursor) * res / zoom on both axes,    *)
(* whatever the pan was before; with the cursor back at the captured       *)
(* position a pan that the drag had moved away is the captured pan again;  *)
(* the captured values change only at a press                              *)
C18_DragFromCapturedOrigin ==
    [][/\ OnLMB => /\ lmb_pressed'
                   /\ << center_x0', center_y0' >> = << center_x, center_y >>
                   /\ << mouse_x0', mouse_y0' >> = cursor
       /\ drag_vars' # drag_vars => OnLMB
       /\ (pc' \in {"draw", "show"} /\ lmb_pressed')
            => /\ center_x' = RAdd(center_x0', RDiv(RMul(RSub(mouse_x0', cursor'[1]),
                                                         RInt(res)), zoom'))
               /\ center_y' = RAdd(center_y0', RDiv(RMul(RSub(mouse_y0', cursor'[2]),
                                                         RInt(res)), zoom'))
       /\ (pc = "drag" /\ lmb_pressed /\ cursor = << mouse_x0, mouse_y0 >>)
            => << center_x', center_y' >> = << center_x0, center_y0 >>]_vars

(* the button is held, no scroll has been handled, the drag of the frame   *)
(* before has moved the pan off the captured one, and the cursor is back   *)
(* at the captured position when the pan is about to be recomputed         *)
C18_Witness ==
    /\ pc = "drag"
    /\ lmb_pressed
    /\ cursor = << mouse_x0, mouse_y0 >>
    /\ center_x # center_x0
    /\ center_y # center_y0
    /\ zoom_new = Unbound
    /\ frame = 2

----------------------------------------------------------------------------
(* A right-button press while paused, for any view and with the cursor at  *)
(* the centre of any pixel, and the frame drawn after it                   *)

PickPans == { Rat(k, 2) : k \in -MaxPan .. MaxPan }

InitPick ==
    /\ state = init_state
    /\ state_idx = 0
    /\ center_x \in PickPans
    /\ center_y \in PickPans
    /\ zoom \in Zooms
    /\ zoom_new = zoom
    /\ cursor \in { << PixelCentre(p[1]), PixelCentre(p[2]) >> : p \in Pixels }
    /\ frame_buffer = init_frame_buffer
    /\ gui_state = PAUSED
    /\ elapsed = 0
    /\ mouse_x0 = Unbound /\ mouse_y0 = Unbound
    /\ center_x0 = Unbound /\ center_y0 = Unbound
    /\ lmb_pressed = FALSE
    /\ events = 1
    /\ pc = "events"
    /\ frame = 0
    /\ frame_steps = 0
    /\ input = [state |-> state, idx |-> state_idx]
    /\ pending = {}
    /\ written = {}
    /\ hazard = FALSE
    /\ zlog = << >>
    /\ anchor = Unbound

NextPick == OnRMB \/ EventsDone \/ DragSkip \/ Draw

SpecPick == InitPick /\ [][NextPick]_vars

(* the pixel whose centre the cursor is at *)
CursorPixel ==
    CHOOSE p \in Pixels : cursor = << PixelCentre(p[1]), PixelCentre(p[2]) >>

(* the cells of the current buffer that differ from the grid the press     *)
(* found                                                                   *)
Toggled ==
    { c \in Cells : state[<<state_idx, c[1], c[2]>>]
                        # input.state[<<state_idx, c[1], c[2]>>] }

(* C19: with the cursor at the centre of pixel (c, r), the cell a          *)
(* right-button press toggles while paused is the cell draw() samples for  *)
(* that pixel, and the press toggles nothing exactly when draw() finds the *)
(* pixel out of bounds; the frame drawn next shows the toggled cell's new  *)
(* value at that pixel, or the dead colour if the press was ignored        *)
C19_PickAgreesWithRender ==
    (pc # "events" \/ events = 0) =>
        /\ Toggled = PixelIndex(CursorPixel)
        /\ Buffer(state, 1 - state_idx) = Buffer(input.state, 1 - state_idx)
        /\ pc = "show" =>
              /\ Toggled = {} => frame_buffer[CursorPixel] = DEAD_COLOR
              /\ \A c \in Toggled :
                    \/ frame_buffer[CursorPixel] = BORDER_COLOR
                    \/ frame_buffer[CursorPixel] = ALIVE_COLOR
                          /\ state[<<state_idx, c[1], c[2]>>] = 1
                    \/ frame_buffer[CursorPixel] = DEAD_COLOR
                          /\ state[<<state_idx, c[1], c[2]>>] = 0

(* a press on a dead cell away from the window centre, in a panned and     *)
(* zoomed view, has been drawn: the pixel under the cursor shows it alive  *)
C19_Witness ==
    /\ pc = "show"
    /\ events = 0
    /\ Cardinality(Toggled) = 1
    /\ frame_buffer[CursorPixel] = ALIVE_COLOR
    /\ zoom # RInt(1)
    /\ center_x # RInt(0)
    /\ center_y # RInt(0)

----------------------------------------------------------------------------
(* C20: the handling of a scroll event with vertical delta 0 never faults  *)
(* and changes neither zoom nor pan, in every reachable state, the first   *)
(* scroll ever handled and a scroll after a rejected one included; the     *)
(* loop goes on with the next event                                        *)
C20_FlatScrollIsNoOp ==
    [][OnWHEELFlat
          => /\ pc' = "events"
             /\ events' = events - 1
             /\ UNCHANGED << zoom, center_x, center_y >>]_vars

====
